---------------------------- MODULE Spec2Model ----------------------------
(***************************************************************************)
(* Model of mixer's attribute engine (mixer/blender_data/attributes.py):   *)
(* the type classifier load_as_what, the reader read_attribute, the writer *)
(* write_attribute, the delta applier apply_attribute and the diff engine  *)
(* diff_attribute, together with the host values they work on.             *)
(***************************************************************************)
EXTENDS Integers, Sequences, FiniteSets, TLC

VARIABLES
    live,         \* the live target object: key -> host value
    shadow,       \* the shadow copy of the target object: key -> value or NoSnap
    fresh,        \* the keys whose shadow was read from the live value it still has
    disk,         \* the file system: source files, cached blobs, metadata files
    pending,      \* the delta waiting to be applied, or NoDelta
    visit,        \* the VisitState of the pass: [recursion_guard, root_ids]
    frames,       \* the call stack: the calls that wait for a nested call
    last          \* the call just made or just left, and what it produced

vars == <<live, shadow, fresh, disk, pending, visit, frames, last>>

(***************************************************************************)
(* Bounds of the model.                                                    *)
(***************************************************************************)
\* scalar numbers range over 0..MaxNum
MaxNum == 1

(***************************************************************************)
(* Python values.  Every value is a record [type, rank, data]: type is the *)
(* runtime type's name, data a sequence of numbers (the payload, or the    *)
(* identity of a host struct), rank the nesting of a list (0: no list).    *)
(***************************************************************************)
Val(t, r, d) == [type |-> t, rank |-> r, data |-> d]

None == Val("NoneType", 0, <<>>)
PyInt(n) == Val("int", 0, <<n>>)
PyFloat(n) == Val("float", 0, <<n>>)
\* the float that is not a number: it has no payload
NaN == Val("float", 0, <<>>)
Vector(a, b) == Val("Vector", 0, <<a, b>>)
\* a 2x2 matrix, row-major
Matrix(a, b, c, d) == Val("Matrix", 0, <<a, b, c, d>>)
PropArray(a, b) == Val("bpy_prop_array", 0, <<a, b>>)
\* a host struct (or collection, or other host object) of type t, identity id
HostObj(t, id) == Val(t, 0, <<id>>)

IsNaN(v) == v.type = "float" /\ v.data = <<>>

\* Python's != on two values: a NaN differs from everything, itself included
PyNe(a, b) == IsNaN(a) \/ IsNaN(b) \/ a # b

(***************************************************************************)
(* The host's types (bpy.types).                                           *)
(***************************************************************************)
BuiltinTypes == {"NoneType", "int", "float", "bool", "str"}
\* subclasses of bpy.types.ID
IDTypes == {"Object", "Mesh", "Collection"}
\* subclasses of bpy.types.PropertyGroup
PropertyGroupTypes == {"PropertyGroup"}
\* subclasses of bpy.types.bpy_struct
StructTypes == IDTypes \cup PropertyGroupTypes \cup {"RenderSettings"}

is_builtin(attr_type) == attr_type \in BuiltinTypes
is_vector(attr_type) == attr_type = "Vector"
is_matrix(attr_type) == attr_type = "Matrix"

(***************************************************************************)
(* Property metadata (bpy.types.Property).  cls is the class of the        *)
(* property object, has_rna tells whether it carries a bl_rna (its bl_rna  *)
(* is then the one of cls), fixed_type names the element or pointed-to     *)
(* type of a collection or pointer property ("" otherwise).                *)
(***************************************************************************)
Prop(n, c, ft, ro, rna) ==
    [name |-> n, cls |-> c, fixed_type |-> ft, is_readonly |-> ro, has_rna |-> rna]

NoRna == "None"
bl_rna(p) == IF p.has_rna THEN p.cls ELSE NoRna

same_rna(a, b) == bl_rna(a) = b

\* issubclass(bl_rna_to_type(bl_rna), bpy.types.ID)
is_ID_subclass_rna(rna) == rna \in IDTypes

(***************************************************************************)
(* LoadElementAs and the classifier.                                       *)
(***************************************************************************)
STRUCT == 0
ID_REF == 1
ID_DEF == 2

NoExc == "none"
NoPolicy == -1

Classified(policy) == [policy |-> policy, exc |-> NoExc]

\* the branch of load_as_what for a collection property
collection_policy_returns_def(attr_property) ==
    IF is_ID_subclass_rna(attr_property.fixed_type) THEN ID_DEF ELSE STRUCT

collection_policy(attr_property) ==
    IF is_ID_subclass_rna(attr_property.fixed_type) THEN ID_REF ELSE STRUCT

\* the last branches of load_as_what: pointer-like properties and the rest
element_policy_asserting(attr_property) ==
    IF same_rna(attr_property, "PointerProperty")
    THEN Classified(IF is_ID_subclass_rna(attr_property.fixed_type)
                    THEN ID_DEF ELSE STRUCT)
    ELSE [policy |-> NoPolicy, exc |-> "AssertionError"]

element_policy(attr_property) ==
    LET element_rna == IF same_rna(attr_property, "PointerProperty")
                       THEN attr_property.fixed_type
                       ELSE bl_rna(attr_property)
    IN  IF element_rna = NoRna
        THEN \* bl_rna_to_type(None)
             [policy |-> NoPolicy, exc |-> "TypeError"]
        ELSE IF is_ID_subclass_rna(element_rna)
             THEN Classified(ID_DEF)
             ELSE Classified(STRUCT)

\* load_as_what with the registry test after the collection test
load_as_what_registry_late(attr_property, attr, root_ids) ==
    IF same_rna(attr_property, "CollectionProperty")
    THEN Classified(collection_policy(attr_property))
    ELSE IF attr \in root_ids
         THEN Classified(ID_REF)
         ELSE IF attr.type = "Mesh"
              THEN Classified(ID_REF)
              ELSE element_policy(attr_property)

load_as_what(attr_property, attr, root_ids) ==
    IF attr \in root_ids
    THEN Classified(ID_REF)
    ELSE IF same_rna(attr_property, "CollectionProperty")
         THEN Classified(collection_policy(attr_property))
         ELSE IF attr.type = "Mesh"
              THEN Classified(ID_REF)
              ELSE element_policy(attr_property)


(***************************************************************************)
(* The host data the operations are given.                                 *)
(***************************************************************************)
\* identities of the host structs of the model
S1 == HostObj("PropertyGroup", 1)
S2 == HostObj("RenderSettings", 2)
Cube == HostObj("Object", 3)
Embedded == HostObj("Collection", 4)
CubeMesh == HostObj("Mesh", 5)
SceneObjects == HostObj("bpy_prop_collection", 6)
Items == HostObj("bpy_prop_collection", 7)
Func == HostObj("bpy_func", 8)

P_objects == Prop("objects", "CollectionProperty", "Object", TRUE, TRUE)
P_meshes == Prop("meshes", "CollectionProperty", "Mesh", TRUE, TRUE)
P_children == Prop("children", "CollectionProperty", "Collection", TRUE, TRUE)
P_items == Prop("items", "CollectionProperty", "PropertyGroup", TRUE, TRUE)
P_data == Prop("data", "PointerProperty", "Mesh", FALSE, TRUE)
P_parent == Prop("parent", "PointerProperty", "Object", FALSE, TRUE)
P_render == Prop("render", "PointerProperty", "RenderSettings", TRUE, TRUE)
P_owner == Prop("owner", "PointerProperty", "PropertyGroup", FALSE, TRUE)
P_x == Prop("x", "IntProperty", "", FALSE, TRUE)
P_f == Prop("f", "FloatProperty", "", FALSE, TRUE)
\* an element's own type standing in for its property metadata
P_element == Prop("element", "Object", "", TRUE, TRUE)
\* metadata without bl_rna
P_bare == Prop("bare", "Property", "", TRUE, FALSE)

CollectionProps == {P_objects, P_meshes, P_children, P_items}
PointerProps == {P_data, P_parent, P_render, P_owner}
ClassifyProps == CollectionProps \cup PointerProps \cup {P_x, P_f, P_element}
ClassifyAttrs ==
    {None, Cube, Embedded, CubeMesh, SceneObjects, Items, S1, S2}
    \cup {PyInt(n) : n \in 0..MaxNum}
Registries == SUBSET {Cube, SceneObjects, S1}

P_location == Prop("location", "FloatProperty", "", FALSE, TRUE)
P_matrix == Prop("matrix_world", "FloatProperty", "", FALSE, TRUE)
P_layers == Prop("layers", "BoolProperty", "", FALSE, TRUE)
P_collection == Prop("collection", "PointerProperty", "Collection", TRUE, TRUE)
P_func == Prop("func", "Property", "", TRUE, TRUE)

\* the members of a host struct, in the host's declared order.  S1 and S2
\* point at each other: the host's graph is cyclic.
Fields(id) ==
    CASE id = 1 -> << [prop |-> P_render, value |-> S2],
                      [prop |-> P_x, value |-> PyInt(1)] >>
      [] id = 2 -> << [prop |-> P_owner, value |-> S1],
                      [prop |-> P_f, value |-> PyFloat(0)] >>
      [] id = 4 -> << [prop |-> P_data, value |-> CubeMesh],
                      [prop |-> P_x, value |-> PyInt(0)] >>
      [] OTHER -> << >>

\* the elements of a host collection
Elements(id) ==
    CASE id = 6 -> << Cube, CubeMesh >>
      [] id = 7 -> << S1 >>
      [] OTHER -> << >>

\* ID.is_embedded_data
is_embedded_data(attr) == attr = Embedded

(***************************************************************************)
(* The recursion guard (VisitState.recursion_guard): a stack of names.     *)
(***************************************************************************)
MAX_DEPTH_29 == 29

MAX_DEPTH == 30

\* RecursionGuard.push(name)
push(guard, name) ==
    LET stack == Append(guard, name)
    IN  [guard |-> stack,
         exc |-> IF Len(stack) > MAX_DEPTH THEN "MaxDepthExceeded" ELSE NoExc]

(***************************************************************************)
(* read_attribute.  Its try block yields a body [ret, exc, warned,         *)
(* loading, members]: the value returned (Absent when it raised), the      *)
(* exception raised (NoExc when none), whether a warning was logged, and,  *)
(* when the value is a proxy whose load reads the members of the host      *)
(* struct with nested calls of read_attribute, those members.              *)
(***************************************************************************)
Absent == Val("<absent>", 0, <<>>)

Returned(value) ==
    [ret |-> value, exc |-> NoExc, warned |-> FALSE, loading |-> FALSE,
     members |-> << >>]
Warned(value) == [Returned(value) EXCEPT !.warned = TRUE]
Raised(exc) == [Returned(Absent) EXCEPT !.exc = exc]
Loading(proxy, members) ==
    [Returned(proxy) EXCEPT !.loading = TRUE, !.members = members]

\* list(attr) of a vector or an array
ToList(attr) == Val("list", 1, attr.data)
\* [list(col) for col in attr.col] of a 2x2 matrix
Columns(attr) ==
    Val("list", 2, <<attr.data[1], attr.data[3], attr.data[2], attr.data[4]>>)

\* the members of all the elements of a host collection, in order
RECURSIVE ElementMembers(_, _)
ElementMembers(elements, i) ==
    IF i > Len(elements)
    THEN << >>
    ELSE Fields(elements[i].data[1]) \o ElementMembers(elements, i + 1)

\* The loads of the proxies.  fails: the load raises by itself.
\* StructProxy().load(attr, visit_state)
StructProxy_load(attr, fails) ==
    IF fails THEN Raised("RuntimeError")
    ELSE Loading(Val("StructProxy", 0, attr.data), Fields(attr.data[1]))

\* DatablockProxy.make(attr_property).load(attr, visit_state)
DatablockProxy_load(attr, fails) ==
    IF fails THEN Raised("RuntimeError")
    ELSE Loading(Val("DatablockProxy", 0, attr.data), Fields(attr.data[1]))

\* DatablockRefProxy().load(attr, visit_state): the identity only
DatablockRefProxy_load(attr, fails) ==
    IF fails THEN Raised("RuntimeError")
    ELSE Returned(Val("DatablockRefProxy", 0, attr.data))

\* DatablockCollectionProxy().load_as_IDref(attr, visit_state): identities only
DatablockCollectionProxy_load_as_IDref(attr, fails) ==
    IF fails THEN Raised("RuntimeError")
    ELSE Returned(Val("DatablockCollectionProxy", 0, attr.data))

\* StructCollectionProxy.make(attr_property).load(attr, attr_property, visit_state)
StructCollectionProxy_load(attr, fails) ==
    IF fails THEN Raised("RuntimeError")
    ELSE Loading(Val("StructCollectionProxy", 0, attr.data),
                 ElementMembers(Elements(attr.data[1]), 1))

\* the branch of read_attribute for metadata without bl_rna, raising
not_implemented_raises(attr) == Raised("ValueError")

\* the branch of read_attribute for metadata without bl_rna
not_implemented(attr) == Warned(None)

\* the end of read_attribute's dispatch for a value that is no host struct
unsupported(attr) == Raised("ValueError")

\* the branch for a bpy_prop_collection without its assert
read_collection_unasserted(attr, attr_property, root_ids, fails) ==
    LET load_as == load_as_what(attr_property, attr, root_ids)
    IN  CASE load_as.exc # NoExc -> Raised(load_as.exc)
          [] load_as.exc = NoExc /\ load_as.policy = STRUCT ->
                StructCollectionProxy_load(attr, fails)
          [] OTHER -> DatablockCollectionProxy_load_as_IDref(attr, fails)

\* the branch of read_attribute for a bpy_prop_collection
read_collection(attr, attr_property, root_ids, fails) ==
    LET load_as == load_as_what(attr_property, attr, root_ids)
    IN  CASE load_as.exc # NoExc -> Raised(load_as.exc)
          [] load_as.exc = NoExc /\ load_as.policy = ID_DEF ->
                Raised("AssertionError")
          [] load_as.exc = NoExc /\ load_as.policy = STRUCT ->
                StructCollectionProxy_load(attr, fails)
          [] OTHER -> DatablockCollectionProxy_load_as_IDref(attr, fails)

\* the test of read_attribute's try block that decides: the first that
\* holds, in the order of the source
read_branch(attr, attr_property) ==
    LET attr_type == attr.type
    IN  CASE is_builtin(attr_type) -> "builtin"
          [] is_vector(attr_type) -> "vector"
          [] is_matrix(attr_type) -> "matrix"
          [] attr_type = "bpy_prop_array" -> "array"
          [] attr_type = "bpy_prop_collection" -> "collection"
          [] attr_property.cls = "CollectionProperty" -> "collection property"
          [] bl_rna(attr_property) = NoRna -> "no bl_rna"
          [] attr_type \in PropertyGroupTypes -> "property group"
          [] attr_type \in IDTypes -> "ID"
          [] attr_type \in StructTypes -> "struct"
          [] OTHER -> "unsupported"

\* the body of read_attribute's try block after the push
read_dispatch(attr, attr_property, root_ids, fails) ==
    LET branch == read_branch(attr, attr_property)
    IN  CASE branch = "builtin" -> Returned(attr)
          [] branch = "vector" -> Returned(ToList(attr))
          [] branch = "matrix" -> Returned(Columns(attr))
          [] branch = "array" -> Returned(ToList(attr))
          [] branch = "collection" ->
                read_collection(attr, attr_property, root_ids, fails)
          [] branch = "collection property" ->
                StructCollectionProxy_load(attr, fails)
          [] branch = "no bl_rna" -> not_implemented(attr)
          [] branch = "property group" -> StructProxy_load(attr, fails)
          [] branch = "ID" /\ is_embedded_data(attr) ->
                DatablockProxy_load(attr, fails)
          [] branch = "ID" /\ ~is_embedded_data(attr) ->
                DatablockRefProxy_load(attr, fails)
          [] branch = "struct" -> StructProxy_load(attr, fails)
          [] OTHER -> unsupported(attr)

\* the entry of read_attribute: the push, then the dispatch unless the push
\* raised.  Yields the body and the guard's stack after the push.
read_enter(attr, attr_property, visit_state, fails) ==
    LET pushed == push(visit_state.recursion_guard, attr_property.name)
        body == IF pushed.exc # NoExc
                THEN Raised(pushed.exc)
                ELSE read_dispatch(attr, attr_property, visit_state.root_ids, fails)
    IN  [body |-> body, guard |-> pushed.guard, pushed_exc |-> pushed.exc]

\* the pop of read_attribute's finally clause, done only when the body returned
pop_on_return_only(body, guard) ==
    IF body.exc # NoExc
    THEN [ret |-> body.ret, exc |-> body.exc, guard |-> guard]
    ELSE [ret |-> body.ret, exc |-> body.exc,
          guard |-> SubSeq(guard, 1, Len(guard) - 1)]

\* the finally clause of read_attribute: recursion_guard.pop(), whether the
\* body returned or raised.  Yields what the caller gets and the guard's stack.
finally_pop(body, guard) ==
    IF guard = << >>
    THEN [ret |-> Absent, exc |-> "IndexError", guard |-> guard]
    ELSE [ret |-> body.ret, exc |-> body.exc,
          guard |-> SubSeq(guard, 1, Len(guard) - 1)]


(***************************************************************************)
(* The live target object (bl_instance, parent): its properties            *)
(* (bl_rna.properties) and the host's setattr.                             *)
(***************************************************************************)
ProxyTypes ==
    {"StructProxy", "StructCollectionProxy", "DatablockProxy",
     "DatablockCollectionProxy", "DatablockRefProxy"}
\* isinstance(value, Proxy)
IsProxy(value) == value.type \in ProxyTypes

PyStr == Val("str", 0, <<0>>)
P_n == Prop("n", "IntProperty", "", TRUE, TRUE)
P_name == Prop("name", "StringProperty", "", FALSE, TRUE)

\* the names in bl_instance.bl_rna.properties
Keys == {"f", "n", "parent", "name"}
\* keys that are no property of the target, and keys that are no str
MissingKeys == {"missing"}
IndexKeys == {"[0]"}

\* bl_instance.bl_rna.properties.get(key), for key in Keys
TargetProperty(key) ==
    CASE key = "f" -> P_f
      [] key = "n" -> P_n
      [] key = "parent" -> P_parent
      [] OTHER -> P_name

\* the host takes the value for the property
Accepts(prop, value) ==
    CASE prop.cls = "FloatProperty" -> value.type \in {"float", "int"}
      [] prop.cls = "IntProperty" -> value.type = "int"
      [] prop.cls = "StringProperty" -> value.type = "str"
      [] prop.cls = "PointerProperty" ->
            value = None \/ (value.type = prop.fixed_type /\ ~IsProxy(value))
      [] OTHER -> FALSE

\* what the host stores: a float property converts an int
Stored(prop, value) ==
    IF prop.cls = "FloatProperty" /\ value.type = "int"
    THEN PyFloat(value.data[1])
    ELSE value

\* setattr(bl_instance, key, value) on the host: [exc, obj].  A key that is
\* no str is a TypeError; an unknown or read-only property, and the name of
\* the master collection, an AttributeError; a value of the wrong type a
\* TypeError.
setattr(obj, key, value) ==
    CASE key \in IndexKeys -> [exc |-> "TypeError", obj |-> obj]
      [] key \in MissingKeys -> [exc |-> "AttributeError", obj |-> obj]
      [] key \in Keys /\ (TargetProperty(key).is_readonly \/ key = "name") ->
            [exc |-> "AttributeError", obj |-> obj]
      [] key \in Keys /\ ~TargetProperty(key).is_readonly /\ key # "name"
           /\ ~Accepts(TargetProperty(key), value) ->
            [exc |-> "TypeError", obj |-> obj]
      [] OTHER ->
            [exc |-> NoExc,
             obj |-> [obj EXCEPT ![key] = Stored(TargetProperty(key), value)]]

\* what a reference proxy refers to
Referent(proxy) == HostObj("Object", proxy.data[1])

\* Proxy.save(bl_instance, key, visit_state): raises save_exc, or stores what
\* the proxy stands for
Proxy_save(obj, key, value, save_exc) ==
    IF save_exc # NoExc \/ key \notin Keys
    THEN [exc |-> save_exc, obj |-> obj]
    ELSE [exc |-> NoExc, obj |-> [obj EXCEPT ![key] = Referent(value)]]

(***************************************************************************)
(* write_attribute.  Yields [exc, fault, logged, obj]: the exception       *)
(* raised to the caller, the exception raised inside, the level of the     *)
(* log entry written ("" when none) and the target object afterwards.      *)
(***************************************************************************)
\* bl_instance is None
NoObject == [k \in Keys |-> Absent]

\* the try block of write_attribute assigning to read-only properties too
write_try_ignores_readonly(obj, key, value, save_exc) ==
    IF IsProxy(value)
    THEN LET saved == Proxy_save(obj, key, value, save_exc)
         IN  [exc |-> saved.exc, fault |-> saved.exc, logged |-> "", obj |-> saved.obj]
    ELSE IF key \in IndexKeys
    THEN [exc |-> "AssertionError", fault |-> "AssertionError", logged |-> "",
          obj |-> obj]
    ELSE IF key \notin Keys
    THEN [exc |-> NoExc, fault |-> NoExc, logged |-> "", obj |-> obj]
    ELSE LET set == setattr(obj, key, value)
         IN  IF set.exc = "TypeError"
             THEN [exc |-> NoExc, fault |-> set.exc, logged |-> "info", obj |-> set.obj]
             ELSE [exc |-> set.exc, fault |-> set.exc, logged |-> "", obj |-> set.obj]

\* the try block of write_attribute: [exc, fault, logged, obj], exc being
\* what reaches the except clauses
write_try(obj, key, value, save_exc) ==
    IF IsProxy(value)
    THEN LET saved == Proxy_save(obj, key, value, save_exc)
         IN  [exc |-> saved.exc, fault |-> saved.exc, logged |-> "", obj |-> saved.obj]
    ELSE IF key \in IndexKeys
    THEN [exc |-> "AssertionError", fault |-> "AssertionError", logged |-> "",
          obj |-> obj]
    ELSE IF key \notin Keys
    THEN [exc |-> NoExc, fault |-> NoExc, logged |-> "", obj |-> obj]
    ELSE IF TargetProperty(key).is_readonly
    THEN [exc |-> NoExc, fault |-> NoExc, logged |-> "", obj |-> obj]
    ELSE LET set == setattr(obj, key, value)
         IN  IF set.exc = "TypeError"
             THEN [exc |-> NoExc, fault |-> set.exc, logged |-> "info", obj |-> set.obj]
             ELSE [exc |-> set.exc, fault |-> set.exc, logged |-> "", obj |-> set.obj]

\* the except clauses of write_attribute without the last one
write_except_no_catch_all(tried, key) ==
    CASE tried.exc = NoExc -> tried
      [] tried.exc = "TypeError" -> [tried EXCEPT !.exc = NoExc, !.logged = "warning"]
      [] tried.exc = "AttributeError" ->
            [tried EXCEPT !.exc = NoExc,
                          !.logged = IF key = "name" THEN "" ELSE "warning"]
      [] OTHER -> tried

\* the except clauses of write_attribute: TypeError, AttributeError (silent
\* for the name of the master collection), then any other Exception
write_except(tried, key) ==
    CASE tried.exc = NoExc -> tried
      [] tried.exc = "TypeError" -> [tried EXCEPT !.exc = NoExc, !.logged = "warning"]
      [] tried.exc = "AttributeError" ->
            [tried EXCEPT !.exc = NoExc,
                          !.logged = IF key = "name" THEN "" ELSE "warning"]
      [] OTHER -> [tried EXCEPT !.exc = NoExc, !.logged = "warning"]

write_attribute(bl_instance, key, value, save_exc) ==
    IF bl_instance = NoObject
    THEN [exc |-> NoExc, fault |-> NoExc, logged |-> "warning", obj |-> bl_instance]
    ELSE write_except(write_try(bl_instance, key, value, save_exc), key)

(***************************************************************************)
(* apply_attribute.  Yields [ret, exc, fault, obj]: the value to store in  *)
(* the shadow (Absent when it raised), the exception raised to the caller, *)
(* the exception of the assignment that was logged, the live object.       *)
(***************************************************************************)
\* Proxy.apply(parent, key, delta, visit_state, to_blender): raises
\* proxy_exc, or replaces the proxy by the delta's value, saving it to the
\* live object when to_blender
Proxy_apply(parent, key, proxy_value, value, to_blender, proxy_exc) ==
    IF proxy_exc # NoExc
    THEN [ret |-> Absent, exc |-> proxy_exc, fault |-> proxy_exc, obj |-> parent]
    ELSE LET set == IF IsProxy(value)
                    THEN Proxy_save(parent, key, value, NoExc)
                    ELSE setattr(parent, key, value)
         IN  [ret |-> value, exc |-> NoExc, fault |-> NoExc,
              obj |-> IF to_blender THEN set.obj ELSE parent]

\* apply_attribute returning the old proxy value
apply_attribute_returns_old(parent, key, proxy_value, value, to_blender, proxy_exc) ==
    IF IsProxy(proxy_value)
    THEN Proxy_apply(parent, key, proxy_value, value, to_blender, proxy_exc)
    ELSE LET set == setattr(parent, key, value)
         IN  IF to_blender
             THEN [ret |-> proxy_value, exc |-> NoExc, fault |-> set.exc,
                   obj |-> set.obj]
             ELSE [ret |-> proxy_value, exc |-> NoExc, fault |-> NoExc,
                   obj |-> parent]

\* apply_attribute assigning to the live object only once the shadow holds a
\* value of the delta's type
apply_attribute_init_only(parent, key, proxy_value, value, to_blender, proxy_exc) ==
    IF IsProxy(proxy_value)
    THEN Proxy_apply(parent, key, proxy_value, value, to_blender, proxy_exc)
    ELSE LET set == setattr(parent, key, value)
         IN  IF to_blender /\ proxy_value.type = value.type
             THEN [ret |-> value, exc |-> NoExc, fault |-> set.exc, obj |-> set.obj]
             ELSE [ret |-> value, exc |-> NoExc, fault |-> NoExc, obj |-> parent]

\* apply_attribute letting the exception of the assignment out
apply_attribute_raising(parent, key, proxy_value, value, to_blender, proxy_exc) ==
    IF IsProxy(proxy_value)
    THEN Proxy_apply(parent, key, proxy_value, value, to_blender, proxy_exc)
    ELSE LET set == setattr(parent, key, value)
         IN  CASE to_blender /\ set.exc # NoExc ->
                    [ret |-> Absent, exc |-> set.exc, fault |-> set.exc,
                     obj |-> set.obj]
               [] to_blender /\ set.exc = NoExc ->
                    [ret |-> value, exc |-> NoExc, fault |-> NoExc, obj |-> set.obj]
               [] OTHER ->
                    [ret |-> value, exc |-> NoExc, fault |-> NoExc, obj |-> parent]

\* apply_attribute assigning whatever to_blender is
apply_attribute_always_assigns(parent, key, proxy_value, value, to_blender, proxy_exc) ==
    IF IsProxy(proxy_value)
    THEN Proxy_apply(parent, key, proxy_value, value, to_blender, proxy_exc)
    ELSE LET set == setattr(parent, key, value)
         IN  [ret |-> value, exc |-> NoExc, fault |-> set.exc, obj |-> set.obj]

apply_attribute(parent, key, proxy_value, value, to_blender, proxy_exc) ==
    IF IsProxy(proxy_value)
    THEN \* an exception of the proxy is logged and raised again
         Proxy_apply(parent, key, proxy_value, value, to_blender, proxy_exc)
    ELSE LET set == setattr(parent, key, value)
         IN  IF to_blender
             THEN \* an exception of setattr is logged, not raised
                  [ret |-> value, exc |-> NoExc, fault |-> set.exc, obj |-> set.obj]
             ELSE [ret |-> value, exc |-> NoExc, fault |-> NoExc, obj |-> parent]

(***************************************************************************)
(* diff_attribute, after the live value has been read again.  Yields       *)
(* [has_delta, value, exc]: whether a DeltaUpdate is returned, its value,  *)
(* and the exception raised to the caller.                                 *)
(***************************************************************************)
NoUpdate == [has_delta |-> FALSE, value |-> None, exc |-> NoExc]
DeltaUpdate(value) == [has_delta |-> TRUE, value |-> value, exc |-> NoExc]
DiffRaised(exc) == [has_delta |-> FALSE, value |-> None, exc |-> exc]

\* DatablockRefProxy.diff(item, item_property, visit_state): raises proxy_exc,
\* or compares the reference read from the live value with its own
Proxy_diff(value, read, proxy_exc) ==
    CASE proxy_exc # NoExc -> DiffRaised(proxy_exc)
      [] proxy_exc = NoExc /\ read.exc # NoExc -> DiffRaised(read.exc)
      [] proxy_exc = NoExc /\ read.exc = NoExc /\ read.ret # value ->
            DeltaUpdate(read.ret)
      [] OTHER -> NoUpdate

\* the comparison of diff_attribute turning a failed read into 'no delta'
diff_compare_absorbing(value, read) ==
    CASE read.exc # NoExc -> NoUpdate
      [] read.exc = NoExc /\ PyNe(read.ret, value) -> DeltaUpdate(read.ret)
      [] OTHER -> NoUpdate

\* diff_attribute for a value that is no proxy: the re-read value is compared
\* with != ; an exception of the read is logged and raised again
diff_compare(value, read) ==
    CASE read.exc # NoExc -> DiffRaised(read.exc)
      [] read.exc = NoExc /\ PyNe(read.ret, value) -> DeltaUpdate(read.ret)
      [] OTHER -> NoUpdate

diff_attribute(value, read, proxy_exc) ==
    IF IsProxy(value)
    THEN Proxy_diff(value, read, proxy_exc)
    ELSE diff_compare(value, read)

(***************************************************************************)
(* local_data: the cache of blobs.  A path is a record [dir, name,         *)
(* suffix]; str(path) is the tuple of its parts and Path(str) the record   *)
(* again.  The disk is [src, blob, meta]: the source paths that exist, the *)
(* content of each cached blob and of each metadata file (NoFile when the  *)
(* file does not exist).                                                   *)
(***************************************************************************)
MaxData == 1

Path(str_path) == [dir |-> str_path[1], name |-> str_path[2], suffix |-> str_path[3]]
str(path) == <<path.dir, path.name, path.suffix>>

SourcePaths ==
    {<<"textures", "a", ".png">>, <<"textures", "b", ".png">>,
     <<"hdri", "a", ".exr">>}

\* hashlib.sha1 of the encoded path string, as hexdigest; no two paths of
\* the model collide
sha1_hexdigest(str_path) ==
    CASE str_path = <<"textures", "a", ".png">> -> "0a4d"
      [] str_path = <<"textures", "b", ".png">> -> "9c1f"
      [] OTHER -> "e37b"

get_cache_file_hash(path) ==
    [dir |-> "images", name |-> sha1_hexdigest(str(path)), suffix |-> path.suffix]

CachePaths == {get_cache_file_hash(Path(p)) : p \in SourcePaths}

NoFile == -1
NoPath == << >>
EmptyDisk ==
    [src |-> {}, blob |-> [c \in CachePaths |-> NoFile],
     meta |-> [c \in CachePaths |-> NoPath]]

\* path.exists(), for the path of a source file or of a cached blob
exists(d, path) ==
    IF path \in CachePaths THEN d.blob[path] # NoFile ELSE str(path) \in d.src

\* the attributes of pathlib.Path that local_data uses, and whether a Path
\* can be added to a str
PathAttributes == {"exists", "parent", "absolute", "suffix"}
PathAddsStr == FALSE

\* create_cache_file: [exc, disk].  Path has no makedirs, so the first
\* statement raises AttributeError and nothing is written.
create_cache_file(d, path, cache_path, data) ==
    IF "makedirs" \notin PathAttributes
    THEN [exc |-> "AttributeError", disk |-> d]
    ELSE LET written == [d EXCEPT !.blob[cache_path] = data]
         IN  IF ~PathAddsStr
             THEN [exc |-> "TypeError", disk |-> written]
             ELSE [exc |-> NoExc,
                   disk |-> [written EXCEPT !.meta[cache_path] = str(path)]]

\* get_or_create_cache_file: [ret, exc, disk]; ret is a path string, NoPath
\* when it raised
get_or_create_cache_file(d, str_path, data) ==
    LET path == Path(str_path)
        cache_path == get_cache_file_hash(path)
        created == create_cache_file(d, path, cache_path, data)
    IN  CASE exists(d, path) -> [ret |-> str_path, exc |-> NoExc, disk |-> d]
          [] ~exists(d, path) /\ exists(d, cache_path) ->
                [ret |-> str(cache_path), exc |-> NoExc, disk |-> d]
          [] ~exists(d, path) /\ ~exists(d, cache_path) /\ created.exc # NoExc ->
                [ret |-> NoPath, exc |-> created.exc, disk |-> created.disk]
          [] OTHER ->
                [ret |-> str(cache_path), exc |-> NoExc, disk |-> created.disk]

(***************************************************************************)
(* State.                                                                  *)
(***************************************************************************)
NoSnap == Val("<no snapshot>", 0, <<>>)
NoDelta == [key |-> "", value |-> None]
Idle == [op |-> "idle"]

Top == frames[Len(frames)]

\* the frame of a caller of read_attribute on the attribute key of the live
\* object: a load of the shadow ("load") or diff_attribute
CallerFns == {"load", "diff_attribute"}
CallerFrame(fn, key) ==
    [fn |-> fn, key |-> key, item |-> live[key],
     item_property |-> TargetProperty(key), value |-> shadow[key],
     state |-> "call", read |-> [ret |-> Absent, exc |-> NoExc],
     entry_live |-> live, entry_shadow |-> shadow, entry_visit |-> visit]

\* the frame of a read_attribute whose proxy is loading its members
ReadFrame(attr, attr_property, entry, body) ==
    [fn |-> "read_attribute", attr |-> attr, attr_property |-> attr_property,
     entry |-> entry, proxy |-> body.ret, members |-> body.members,
     next |-> 1, exc |-> NoExc]

\* the call stack after the call its top frame waited for has ended with
\* [ret, exc]: a loading proxy goes on with its next member, or, when the
\* member's read raised and the load does not catch it (absorb), raises too
Resume(callers, ended, absorb) ==
    IF callers = << >>
    THEN callers
    ELSE LET caller == callers[Len(callers)]
         IN  [callers EXCEPT ![Len(callers)] =
                 IF caller.fn # "read_attribute"
                 THEN [caller EXCEPT !.state = "returned",
                                     !.read = [ret |-> ended.ret, exc |-> ended.exc]]
                 ELSE IF ended.exc # NoExc /\ ~absorb
                 THEN [caller EXCEPT !.exc = ended.exc]
                 ELSE [caller EXCEPT !.next = @ + 1]]

\* what the call of read_attribute that has just ended was given and produced
ReadEnded(attr, attr_property, entry, pushed_exc, warned, ended) ==
    [op |-> "read", attr |-> attr, attr_property |-> attr_property,
     before |-> entry, after |-> ended.guard, ret |-> ended.ret,
     exc |-> ended.exc, warned |-> warned, pushed_exc |-> pushed_exc,
     nested |-> frames # << >>]

\* a call of read_attribute is due: the one the traversal asked for, or the
\* one of the next member of the proxy that is loading
CallDue ==
    \/ frames = << >> /\ last.op = "call read_attribute"
    \/ frames # << >> /\ Top.fn \in CallerFns /\ Top.state = "call"
    \/ /\ frames # << >>
       /\ Top.fn = "read_attribute"
       /\ Top.exc = NoExc
       /\ Top.next <= Len(Top.members)

DueAttr ==
    CASE frames = << >> -> last.attr
      [] frames # << >> /\ Top.fn \in CallerFns -> Top.item
      [] OTHER -> Top.members[Top.next].value
DueProperty ==
    CASE frames = << >> -> last.attr_property
      [] frames # << >> /\ Top.fn \in CallerFns -> Top.item_property
      [] OTHER -> Top.members[Top.next].prop

\* read_attribute is entered: it pushes and dispatches; a value that needs no
\* nested read is returned (or the failure raised) through the finally clause
\* at once, otherwise the proxy starts loading its members
ReadEnter ==
    /\ CallDue
    /\ \E fails \in BOOLEAN, absorb \in BOOLEAN :
        LET entered == read_enter(DueAttr, DueProperty, visit, fails)
            ended == finally_pop(entered.body, entered.guard)
        IN  IF entered.body.loading
            THEN /\ frames' = Append(frames, ReadFrame(DueAttr, DueProperty,
                                        visit.recursion_guard, entered.body))
                 /\ visit' = [visit EXCEPT !.recursion_guard = entered.guard]
                 /\ last' = [op |-> "enter", attr |-> DueAttr,
                             attr_property |-> DueProperty]
            ELSE /\ frames' = Resume(frames, ended, absorb)
                 /\ visit' = [visit EXCEPT !.recursion_guard = ended.guard]
                 /\ last' = ReadEnded(DueAttr, DueProperty, visit.recursion_guard,
                                      entered.pushed_exc, entered.body.warned,
                                      ended)
    /\ UNCHANGED <<disk, live, shadow, fresh, pending>>

\* read_attribute is left by a proxy's load: the load has read its last
\* member and returns the proxy, or raises; the finally clause pops
ReadExit ==
    /\ frames # << >>
    /\ Top.fn = "read_attribute"
    /\ Top.exc # NoExc \/ Top.next > Len(Top.members)
    /\ \E absorb \in BOOLEAN :
        LET body == IF Top.exc # NoExc THEN Raised(Top.exc) ELSE Returned(Top.proxy)
            ended == finally_pop(body, visit.recursion_guard)
            callers == SubSeq(frames, 1, Len(frames) - 1)
        IN  /\ frames' = Resume(callers, ended, absorb)
            /\ visit' = [visit EXCEPT !.recursion_guard = ended.guard]
            /\ last' = [ReadEnded(Top.attr, Top.attr_property, Top.entry, NoExc,
                                  FALSE, ended)
                        EXCEPT !.nested = callers # << >>]
    /\ UNCHANGED <<disk, live, shadow, fresh, pending>>

(***************************************************************************)
(* The classifier on its own: one call of load_as_what on each input.      *)
(***************************************************************************)
ClassifyCalls ==
    [op : {"call load_as_what"}, attr_property : ClassifyProps,
     attr : ClassifyAttrs, root_ids : Registries]

\* load_as_what is called on one attribute
Classify ==
    /\ last.op = "call load_as_what"
    /\ LET r == load_as_what(last.attr_property, last.attr, last.root_ids)
       IN  last' = [op |-> "classify", attr_property |-> last.attr_property,
                    attr |-> last.attr, root_ids |-> last.root_ids,
                    policy |-> r.policy, exc |-> r.exc]
    /\ UNCHANGED <<disk, live, shadow, fresh, pending, visit, frames>>

\* the live object as the host created it; nothing read from it yet
Store0 ==
    /\ live = [f |-> PyFloat(0), n |-> PyInt(0), parent |-> None, name |-> PyStr]
    /\ shadow = [k \in Keys |-> NoSnap]
    /\ fresh = {}
    /\ disk = EmptyDisk
    /\ pending = NoDelta
    /\ frames = << >>

InitClassify ==
    /\ Store0
    /\ visit = [recursion_guard |-> << >>, root_ids |-> {}]
    /\ last \in ClassifyCalls

SpecClassify == InitClassify /\ [][Classify]_vars

(***************************************************************************)
(* The reader on its own: one traversal from each value, entered at each   *)
(* nesting.                                                                *)
(***************************************************************************)
\* what read_attribute is called on: a value and the metadata of its property
ReadPairs ==
    {<<PyInt(n), P_x>> : n \in 0..MaxNum}
    \cup {<<PyFloat(n), P_f>> : n \in 0..MaxNum}
    \cup {<<NaN, P_f>>, <<None, P_parent>>,
          <<Vector(1, 0), P_location>>, <<Matrix(1, 2, 3, 4), P_matrix>>,
          <<PropArray(0, 1), P_layers>>,
          <<SceneObjects, P_objects>>, <<Items, P_items>>, <<S1, P_items>>,
          <<SceneObjects, P_parent>>, <<Items, P_render>>, <<Items, P_x>>,
          <<S1, P_owner>>, <<S2, P_render>>, <<Cube, P_parent>>,
          <<CubeMesh, P_data>>, <<Embedded, P_collection>>,
          <<Func, P_func>>, <<Func, P_bare>>, <<S1, P_bare>>}

\* the guard's stack on entry: a top-level call, or a call nested in a
\* traversal that is n attributes deep
Nested(n) == [i \in 1..n |-> "outer"]
EntryGuards == {Nested(0), Nested(1), Nested(MAX_DEPTH - 1), Nested(MAX_DEPTH)}

ReadRegistries == {{}, {Cube}, {SceneObjects, S1}}

ReadCalls ==
    {[op |-> "call read_attribute", attr |-> pair[1], attr_property |-> pair[2]] :
        pair \in ReadPairs}

InitRead ==
    /\ Store0
    /\ visit \in [recursion_guard : EntryGuards, root_ids : ReadRegistries]
    /\ last \in ReadCalls

NextRead == ReadEnter \/ ReadExit

SpecRead == InitRead /\ [][NextRead]_vars

(***************************************************************************)
(* Properties of the reader (under SpecRead).                              *)
(***************************************************************************)
\* the guard's stack is the entry stack of the innermost loading proxy plus
\* its name, and each loading proxy was entered from inside the one below it
GuardFollowsFrames ==
    /\ frames # << >> =>
          visit.recursion_guard = Append(Top.entry, Top.attr_property.name)
    /\ \A i \in 1..(Len(frames) - 1) :
          frames[i + 1].entry = Append(frames[i].entry, frames[i].attr_property.name)

\* C2: after any call of read_attribute, returned or failed, the recursion
\* guard's stack is what it was before the call, and a proxy that goes on
\* loading after a member's read (failed or not) sees the stack it started with.
C2_GuardRestored ==
    /\ last.op = "read" => last.after = last.before
    /\ GuardFollowsFrames

\* C2 witness: a nested read has failed, the loading proxy caught the failure
\* and the read of the next member is due.
C2_FailedMemberAbsorbed ==
    /\ last.op = "read"
    /\ last.exc # NoExc
    /\ frames # << >>
    /\ Top.exc = NoExc
    /\ Top.next > 1
    /\ Top.next <= Len(Top.members)

\* C3: the push of read_attribute raises MaxDepthExceeded exactly when it makes
\* the guard's stack deeper than 30; the call then fails with it and enters
\* nothing, so no proxy ever loads below depth 30.
C3_DepthExceededExactly ==
    /\ last.op = "read" =>
          /\ last.pushed_exc = "MaxDepthExceeded" <=> Len(last.before) + 1 > 30
          /\ last.pushed_exc # NoExc =>
                last.exc = "MaxDepthExceeded" /\ last.ret = Absent
    /\ \A i \in 1..Len(frames) : Len(frames[i].entry) + 1 <= 30
    /\ Len(visit.recursion_guard) <= 30

\* C3 witness: a traversal of the cyclic host graph, entered with an empty
\* stack, is 30 proxies deep and the read of the 31st level has failed for depth.
C3_CycleCutAtMaxDepth ==
    /\ last.op = "read"
    /\ last.exc = "MaxDepthExceeded"
    /\ Len(last.before) = 30
    /\ Len(frames) = 30
    /\ frames[1].entry = << >>

\* a value that is none of: builtin, vector, matrix, array, collection,
\* property group, addressable entity, other structure
Unsupported(attr, attr_property) ==
    /\ attr.type \notin BuiltinTypes \cup StructTypes
    /\ attr.type \notin {"Vector", "Matrix", "bpy_prop_array", "bpy_prop_collection"}
    /\ attr_property.cls # "CollectionProperty"

\* C10 as claimed: reading an unsupported value never fails; it logs a warning
\* and returns an absent value.
C10_UnsupportedNeverFatal ==
    last.op = "read" /\ Unsupported(last.attr, last.attr_property) =>
        last.exc = NoExc /\ last.warned /\ last.ret = None

\* C10 as amended: within the maximum depth, reading an unsupported value logs
\* a warning and returns None when its property metadata has no bl_rna, and
\* fails with ValueError when it has one.
C10_UnsupportedDegradesWithoutRna ==
    last.op = "read" /\ Unsupported(last.attr, last.attr_property)
                     /\ last.pushed_exc = NoExc =>
        IF last.attr_property.has_rna
        THEN last.exc = "ValueError" /\ last.ret = Absent /\ ~last.warned
        ELSE last.exc = NoExc /\ last.warned /\ last.ret = None

\* C10 witness: an unsupported value whose metadata has no bl_rna was read.
C10_WarnedAndAbsent ==
    /\ last.op = "read"
    /\ Unsupported(last.attr, last.attr_property)
    /\ ~last.attr_property.has_rna
    /\ last.warned
    /\ last.ret = None

(***************************************************************************)
(* Properties of the classifier (under SpecClassify).                      *)
(***************************************************************************)
\* C7: a collection property whose element type is a subclass of ID is
\* classified ID_REF, never ID_DEF, for every entity category, value and
\* registry.
C7_EntityCollectionIsReference ==
    last.op = "classify" /\ last.attr_property.cls = "CollectionProperty"
                         /\ last.attr_property.fixed_type \in IDTypes =>
        last.exc = NoExc /\ last.policy = ID_REF

\* C7 witness: a collection of meshes whose value is not in the registry was
\* classified.
C7_MeshCollectionClassified ==
    /\ last.op = "classify"
    /\ last.attr_property = P_meshes
    /\ last.attr \notin last.root_ids
    /\ last.policy = ID_REF

\* C8: a value that is in the registry is classified ID_REF whatever its
\* property and runtime type.
C8_RegistryFirst ==
    last.op = "classify" /\ last.attr \in last.root_ids =>
        last.exc = NoExc /\ last.policy = ID_REF

\* C8 witness: a registered value met through a collection property of
\* non-entity elements was classified.
C8_RegisteredStructCollection ==
    /\ last.op = "classify"
    /\ last.attr \in last.root_ids
    /\ last.attr_property = P_items
    /\ last.policy = ID_REF

\* an attribute that matches none of the classifier's four rules
NoRule(attr_property, attr, root_ids) ==
    /\ attr \notin root_ids
    /\ attr_property.cls # "CollectionProperty"
    /\ attr.type # "Mesh"
    /\ attr_property.cls # "PointerProperty"

\* C9 as claimed: an attribute that matches none of the four rules fails an
\* assertion and gets no load policy.
C9_GapAsserts ==
    last.op = "classify" /\ NoRule(last.attr_property, last.attr, last.root_ids) =>
        last.exc = "AssertionError" /\ last.policy = NoPolicy

\* C9 as amended: an attribute that matches none of the four rules is given a
\* load policy without any assertion: ID_DEF when the type of its own metadata
\* is a subclass of ID, STRUCT otherwise.
C9_GapGetsDefault ==
    last.op = "classify" /\ NoRule(last.attr_property, last.attr, last.root_ids) =>
        /\ last.exc = NoExc
        /\ last.policy = IF last.attr_property.cls \in IDTypes THEN ID_DEF ELSE STRUCT

\* C9 witness: a plain integer attribute was classified STRUCT.
C9_PlainAttributeIsStruct ==
    /\ last.op = "classify"
    /\ last.attr_property = P_x
    /\ last.attr = PyInt(0)
    /\ last.root_ids = {}
    /\ last.policy = STRUCT

(***************************************************************************)
(* The writer: passes over the attributes of a target object, one          *)
(* write_attribute after the other.                                        *)
(***************************************************************************)
WriteKeys == Keys \cup MissingKeys \cup IndexKeys
RefCube == DatablockRefProxy_load(Cube, FALSE).ret
WriteValues ==
    {PyFloat(n) : n \in 0..MaxNum} \cup {PyInt(n) : n \in 0..MaxNum}
    \cup {NaN, None, Cube, PyStr, RefCube}
SaveOutcomes == {NoExc, "TypeError", "AttributeError", "RuntimeError"}

\* the caller's pass writes the next attribute; it gets there only if the
\* write before it returned
WriteAttribute ==
    /\ last.op = "write" => last.exc = NoExc
    /\ \E target \in {"None", "object"}, key \in WriteKeys, value \in WriteValues,
          save_exc \in SaveOutcomes :
        /\ save_exc # NoExc => IsProxy(value)
        /\ LET w == write_attribute(IF target = "None" THEN NoObject ELSE live,
                                    key, value, save_exc)
           IN  /\ live' = IF target = "None" THEN live ELSE w.obj
               /\ fresh' = IF target = "None" \/ w.obj = live
                           THEN fresh ELSE fresh \ {key}
               /\ last' = [op |-> "write", target |-> target, key |-> key,
                           value |-> value, exc |-> w.exc, fault |-> w.fault,
                           logged |-> w.logged, before |-> live,
                           follows_fault |-> last.op = "write" /\ last.fault # NoExc]
    /\ UNCHANGED <<disk, shadow, pending, visit, frames>>

InitWrite ==
    /\ Store0
    /\ visit = [recursion_guard |-> << >>, root_ids |-> {Cube}]
    /\ last = Idle

SpecWrite == InitWrite /\ [][WriteAttribute]_vars

\* C1: write_attribute returns normally for every target (None included),
\* key and value, whatever fails inside it.
C1_WriteNeverRaises ==
    last.op = "write" => last.exc = NoExc

\* C1 witness: a write in which something other than a type or attribute
\* error was raised has returned, after a write of the same pass that had
\* failed inside too.
C1_FaultyWritesReturn ==
    /\ last.op = "write"
    /\ last.fault \in {"AssertionError", "RuntimeError"}
    /\ last.follows_fault
    /\ last.exc = NoExc

(***************************************************************************)
(* Synchronisation of the attributes of one live object with its shadow:   *)
(* the shadow is loaded by reading, the host mutates the live object,      *)
(* diff_attribute produces deltas, deltas arrive from a peer, and          *)
(* apply_attribute applies the pending delta.                              *)
(***************************************************************************)
SyncKeys == {"f", "parent"}

\* the values the host gives to an attribute
HostValues(key) ==
    IF key = "f"
    THEN {PyFloat(n) : n \in 0..MaxNum} \cup {NaN}
    ELSE {None, Cube}

\* the values a peer's deltas carry for an attribute: what its reader returns
RemoteValues(key) ==
    IF key = "f"
    THEN {PyFloat(n) : n \in 0..MaxNum} \cup {NaN}
    ELSE {None, RefCube}

ProxyOutcomes == {NoExc, "RuntimeError"}

\* the host mutates an attribute of the live object
Mutate ==
    /\ frames = << >>
    /\ \E key \in SyncKeys : \E v \in HostValues(key) :
        /\ v # live[key]
        /\ live' = [live EXCEPT ![key] = v]
        /\ fresh' = fresh \ {key}
        /\ last' = [op |-> "mutate", key |-> key]
    /\ UNCHANGED <<disk, shadow, pending, visit, frames>>

\* the shadow of an attribute is loaded: read_attribute is called on it
LoadBegin ==
    /\ frames = << >>
    /\ \E key \in SyncKeys :
        /\ frames' = << CallerFrame("load", key) >>
        /\ last' = [op |-> "call", fn |-> "load", key |-> key]
    /\ UNCHANGED <<disk, live, shadow, fresh, pending, visit>>

\* the read has ended: what it returned is the snapshot; nothing is stored
\* when it raised
LoadEnd ==
    /\ frames # << >>
    /\ Top.fn = "load"
    /\ Top.state = "returned"
    /\ shadow' = IF Top.read.exc = NoExc
                 THEN [shadow EXCEPT ![Top.key] = Top.read.ret]
                 ELSE shadow
    /\ fresh' = IF Top.read.exc = NoExc THEN fresh \cup {Top.key} ELSE fresh
    /\ frames' = << >>
    /\ last' = [op |-> "load", key |-> Top.key, ret |-> Top.read.ret,
                exc |-> Top.read.exc]
    /\ UNCHANGED <<disk, live, pending, visit>>

\* diff_attribute is called on an attribute that has a shadow value; the live
\* value is read again
DiffBegin ==
    /\ frames = << >>
    /\ \E key \in SyncKeys :
        /\ shadow[key] # NoSnap
        /\ frames' = << CallerFrame("diff_attribute", key) >>
        /\ last' = [op |-> "call", fn |-> "diff_attribute", key |-> key]
    /\ UNCHANGED <<disk, live, shadow, fresh, pending, visit>>

\* diff_attribute returns a delta or None, or raises
DiffEnd ==
    /\ frames # << >>
    /\ Top.fn = "diff_attribute"
    /\ Top.state = "returned"
    /\ \E proxy_exc \in ProxyOutcomes :
        /\ proxy_exc # NoExc => IsProxy(Top.value)
        /\ LET d == diff_attribute(Top.value, Top.read, proxy_exc)
           IN  /\ pending' = IF d.has_delta
                             THEN [key |-> Top.key, value |-> d.value]
                             ELSE NoDelta
               /\ last' = [op |-> "diff", key |-> Top.key, item |-> Top.item,
                           value |-> Top.value, fresh |-> Top.key \in fresh,
                           blender_value |-> Top.read.ret,
                           has_delta |-> d.has_delta, delta_value |-> d.value,
                           exc |-> d.exc, read_exc |-> Top.read.exc,
                           proxy_exc |-> proxy_exc,
                           entry_live |-> Top.entry_live,
                           entry_shadow |-> Top.entry_shadow,
                           entry_visit |-> Top.entry_visit]
    /\ frames' = << >>
    /\ UNCHANGED <<disk, live, shadow, fresh, visit>>

\* a delta of a peer arrives
Receive ==
    /\ frames = << >>
    /\ \E key \in SyncKeys : \E v \in RemoteValues(key) :
        /\ pending' = [key |-> key, value |-> v]
        /\ last' = [op |-> "receive", key |-> key]
    /\ UNCHANGED <<disk, live, shadow, fresh, visit, frames>>

\* apply_attribute applies the pending delta; the caller stores what it
\* returns as the new shadow value
Apply ==
    /\ frames = << >>
    /\ pending # NoDelta
    /\ \E to_blender \in BOOLEAN, proxy_exc \in ProxyOutcomes :
        /\ proxy_exc # NoExc => IsProxy(shadow[pending.key])
        /\ LET key == pending.key
               a == apply_attribute(live, key, shadow[key], pending.value,
                                    to_blender, proxy_exc)
               again == /\ last.op = "apply"
                        /\ last.exc = NoExc
                        /\ last.to_blender = to_blender
           IN  /\ live' = a.obj
               /\ shadow' = IF a.exc = NoExc
                            THEN [shadow EXCEPT ![key] = a.ret]
                            ELSE shadow
               /\ fresh' = fresh \ {key}
               /\ last' = [op |-> "apply", key |-> key, to_blender |-> to_blender,
                           proxy_value |-> shadow[key], value |-> pending.value,
                           ret |-> a.ret, exc |-> a.exc, fault |-> a.fault,
                           live_before |-> live, live_after |-> a.obj,
                           after_diff |-> last.op = "diff",
                           diffed_item |-> IF last.op = "diff" THEN last.item ELSE None,
                           diffed_read |-> IF last.op = "diff"
                                           THEN last.blender_value ELSE None,
                           again |-> again,
                           first_live_before |-> IF again THEN last.live_before
                                                 ELSE live,
                           first_proxy_value |-> IF again THEN last.proxy_value
                                                 ELSE None]
    /\ UNCHANGED <<disk, pending, visit, frames>>

\* the attributes belong to a top-level object, or to a structure that the
\* traversal reaches at the maximum depth
SyncGuards == {Nested(0), Nested(MAX_DEPTH)}

InitSync ==
    /\ Store0
    /\ visit \in [recursion_guard : SyncGuards, root_ids : {{Cube}}]
    /\ last = Idle

NextSync ==
    \/ Mutate
    \/ LoadBegin
    \/ LoadEnd
    \/ DiffBegin
    \/ DiffEnd
    \/ Receive
    \/ Apply
    \/ ReadEnter

SpecSync == InitSync /\ [][NextSync]_vars

(***************************************************************************)
(* Properties of diff_attribute and apply_attribute (under SpecSync).       *)
(***************************************************************************)
\* the diff that has just ended compared a live value with the snapshot read
\* from it, the live value not having been assigned since
SelfDiff == last.op = "diff" /\ last.fresh /\ last.exc = NoExc

\* C4: diff_attribute of a live value against the snapshot read from it
\* returns no delta as long as the live value has not been mutated.
C4_SelfDiffEmpty ==
    SelfDiff => ~last.has_delta

\* a self-diff returns a delta for no live value other than a NaN float
C4_SelfDiffEmptyUnlessNaN ==
    SelfDiff /\ ~IsNaN(last.item) => ~last.has_delta

\* a self-diff of a live value that is no NaN has returned no delta
C4_SelfDiffOfNumber ==
    SelfDiff /\ last.item = PyFloat(1) /\ ~last.has_delta

\* the delta that has just been applied is the one diff_attribute returned for
\* the shadow value it was applied to, and that shadow value is no proxy
AppliedDiff ==
    last.op = "apply" /\ last.after_diff /\ ~IsProxy(last.proxy_value)

\* C5: with D the delta diff_attribute returns for a shadow value A against a
\* live value B, apply_attribute of D to A returns the value read from B (B
\* itself when B is a scalar), which becomes the shadow value.
C5_ApplyOfDiffConverges ==
    AppliedDiff =>
        /\ last.exc = NoExc
        /\ last.ret = last.diffed_read
        /\ is_builtin(last.diffed_item.type) => last.ret = last.diffed_item
        /\ shadow[last.key] = last.ret

\* C5 witness: the shadow value differed from the live scalar, the delta of
\* their diff has been applied, and the shadow now holds the live scalar.
C5_ShadowCaughtUp ==
    /\ AppliedDiff
    /\ last.proxy_value # last.diffed_item
    /\ last.diffed_item = PyFloat(1)
    /\ shadow[last.key] = last.diffed_item

\* the same delta has been applied twice in a row with the same to_blender,
\* the first result having been stored as the shadow value, neither shadow
\* value being a proxy
AppliedTwice ==
    /\ last.op = "apply"
    /\ last.again
    /\ ~IsProxy(last.first_proxy_value)
    /\ ~IsProxy(last.proxy_value)

\* C6: the second of two applications in a row of the same delta returns the
\* shadow value the first one returned and leaves the live object as the
\* first one left it.
C6_ApplyIdempotent ==
    AppliedTwice =>
        /\ last.exc = NoExc
        /\ last.ret = last.proxy_value
        /\ shadow[last.key] = last.proxy_value
        /\ last.live_after = last.live_before

\* C6 witness: the first application changed the shadow value and assigned a
\* new value to the live object; the second one has been done with to_blender.
C6_SecondApplyChangesNothing ==
    /\ AppliedTwice
    /\ last.to_blender
    /\ last.first_proxy_value # last.proxy_value
    /\ last.first_live_before # last.live_before
    /\ last.live_after = last.live_before

\* a delta has just been applied to a shadow value that is no proxy
AppliedToPlain == last.op = "apply" /\ ~IsProxy(last.proxy_value)

\* C11: for a shadow value that is no proxy, apply_attribute raises nothing
\* and returns the delta's value, with to_blender set or not and also when
\* the assignment to the live object fails; the caller stores that value.
C11_ApplyReturnsDeltaValue ==
    AppliedToPlain =>
        /\ last.exc = NoExc
        /\ last.ret = last.value
        /\ shadow[last.key] = last.value

\* C11 witness: the assignment to the live object failed (a reference proxy
\* is no value the host takes for a pointer), the live object is as it was,
\* and the delta's value has been returned all the same.
C11_FailedAssignmentAbsorbed ==
    /\ AppliedToPlain
    /\ last.to_blender
    /\ last.fault = "TypeError"
    /\ last.live_after = last.live_before
    /\ last.exc = NoExc
    /\ last.ret = last.value

\* C15: with to_blender false and a shadow value that is no proxy,
\* apply_attribute assigns no attribute of the live object.
C15_ShadowOnlyApplyKeepsLive ==
    AppliedToPlain /\ ~last.to_blender =>
        /\ last.live_after = last.live_before
        /\ live = last.live_before
        /\ last.fault = NoExc

\* C15 witness: a delta whose value the live attribute does not hold has been
\* applied with to_blender false; the shadow value changed, the live one not.
C15_ShadowChangedLiveNot ==
    /\ AppliedToPlain
    /\ ~last.to_blender
    /\ last.value = PyFloat(1)
    /\ last.live_before[last.key] = PyFloat(0)
    /\ last.proxy_value # last.value
    /\ shadow[last.key] = last.value
    /\ live = last.live_before

(***************************************************************************)
(* Frame of the writer (under SpecWrite).                                  *)
(***************************************************************************)
\* a value that is no proxy has just been written to a key that names no
\* property of the target, or a read-only one
WroteUnwritable ==
    /\ last.op = "write"
    /\ last.target = "object"
    /\ ~IsProxy(last.value)
    /\ \/ last.key \in MissingKeys
       \/ last.key \in Keys /\ TargetProperty(last.key).is_readonly

\* C16: write_attribute of a value that is no proxy to an absent or read-only
\* property assigns nothing (no assignment fails, nothing is logged), leaves
\* the live object as it was and raises nothing.
C16_UnwritableKeepsLive ==
    WroteUnwritable =>
        /\ live = last.before
        /\ last.fault = NoExc
        /\ last.logged = ""
        /\ last.exc = NoExc

\* C16 witness: a value the read-only property does not hold, of the
\* property's type, has been written to it and the property holds what it held.
C16_ReadOnlySkipped ==
    /\ WroteUnwritable
    /\ last.key = "n"
    /\ last.value = PyInt(1)
    /\ live["n"] = PyInt(0)

(***************************************************************************)
(* Failures and frame of diff_attribute (under SpecSync).                  *)
(***************************************************************************)
\* C12: when the re-read of the live value or the proxy's own diff raised,
\* diff_attribute raises that exception to its caller: it returns neither
\* 'no delta' nor a delta, and no delta is left to apply.
C12_DiffFailuresPropagate ==
    last.op = "diff" /\ (last.read_exc # NoExc \/ last.proxy_exc # NoExc) =>
        /\ last.exc # NoExc
        /\ last.exc \in {last.read_exc, last.proxy_exc}
        /\ ~last.has_delta
        /\ pending = NoDelta

\* C12 witness: the re-read of a live value against a shadow value that is no
\* proxy failed for depth and diff_attribute has raised MaxDepthExceeded.
C12_DepthFailureRaised ==
    /\ last.op = "diff"
    /\ ~IsProxy(last.value)
    /\ last.read_exc = "MaxDepthExceeded"
    /\ last.exc = "MaxDepthExceeded"

\* diff_attribute has just returned for a shadow value that is no proxy
PlainDiffReturned ==
    last.op = "diff" /\ ~IsProxy(last.value) /\ last.exc = NoExc

\* C17: for a shadow value that is no proxy, diff_attribute returns an Update
\* exactly when the value re-read from the live attribute is another value
\* than the shadow value, the Update carries the re-read value, and a field
\* that was not mutated since its snapshot gets no Update.
C17_UpdateIffDiffers ==
    PlainDiffReturned =>
        /\ last.has_delta <=> last.blender_value # last.value
        /\ last.has_delta => last.delta_value = last.blender_value
        /\ last.fresh => ~last.has_delta

\* the same, leaving out the diffs in which the re-read value is a NaN float
C17_UpdateIffDiffersUnlessNaN ==
    PlainDiffReturned /\ ~IsNaN(last.blender_value) =>
        /\ last.has_delta <=> last.blender_value # last.value
        /\ last.has_delta => last.delta_value = last.blender_value
        /\ last.fresh => ~last.has_delta

\* an Update for a mutated float field, carrying the live value
C17_MutatedFieldUpdated ==
    /\ PlainDiffReturned
    /\ last.value = PyFloat(0)
    /\ last.item = PyFloat(1)
    /\ last.has_delta
    /\ last.delta_value = PyFloat(1)

\* a diff_attribute on a shadow value that is no proxy has just ended,
\* returning or raising
PlainDiffEnded == last.op = "diff" /\ ~IsProxy(last.value)

\* C19: diff_attribute on a shadow value that is no proxy changes neither the
\* live object nor the shadow nor the registry, and the recursion guard's
\* stack is afterwards (and when the re-read has ended) what it was before,
\* whether a delta is returned, none is, or an exception is raised.
C19_DiffIsReadOnly ==
    /\ PlainDiffEnded =>
          /\ live = last.entry_live
          /\ shadow = last.entry_shadow
          /\ visit.root_ids = last.entry_visit.root_ids
          /\ visit.recursion_guard = last.entry_visit.recursion_guard
    /\ \A i \in 1..Len(frames) :
          frames[i].fn = "diff_attribute" /\ ~IsProxy(frames[i].value) =>
              /\ live = frames[i].entry_live
              /\ shadow = frames[i].entry_shadow
              /\ visit.root_ids = frames[i].entry_visit.root_ids
              /\ frames[i].state = "returned" =>
                    visit.recursion_guard = frames[i].entry_visit.recursion_guard

\* C19 witness: the re-read of the live value (a reference whose load failed)
\* raised, diff_attribute raised, and the stores and the guard are as before.
C19_RaisedAndUnchanged ==
    /\ PlainDiffEnded
    /\ last.exc = "RuntimeError"
    /\ last.item = Cube
    /\ live = last.entry_live
    /\ shadow = last.entry_shadow
    /\ visit = last.entry_visit

(***************************************************************************)
(* The assertion of read_attribute on the classifier (under SpecRead).     *)
(***************************************************************************)
\* a read of a bpy_prop_collection that got past the push has just ended
CollectionRead ==
    /\ last.op = "read"
    /\ last.attr.type = "bpy_prop_collection"
    /\ last.pushed_exc = NoExc

\* the property metadata declares an ID: a pointer to one, or, being neither
\* a collection nor a pointer property, being of an ID type itself
DeclaresEntity(attr_property) ==
    /\ ~same_rna(attr_property, "CollectionProperty")
    /\ is_ID_subclass_rna(IF same_rna(attr_property, "PointerProperty")
                          THEN attr_property.fixed_type
                          ELSE bl_rna(attr_property))

SourceFileChanges ==
    /\ \E p \in SourcePaths :
        /\ disk' = [disk EXCEPT !.src = IF p \in @ THEN @ \ {p} ELSE @ \cup {p}]
        /\ last' = [op |-> "file", str_path |-> p]
    /\ UNCHANGED <<live, shadow, fresh, pending, visit, frames>>

GetOrCreateCacheFile ==
    /\ \E str_path \in SourcePaths, data \in 0..MaxData :
        LET r == get_or_create_cache_file(disk, str_path, data)
            second == /\ last.op = "get_or_create_cache_file"
                      /\ last.str_path = str_path
                      /\ last.data = data
        IN  /\ disk' = r.disk
            /\ last' = [op |-> "get_or_create_cache_file", str_path |-> str_path,
                        data |-> data, ret |-> r.ret, exc |-> r.exc,
                        before |-> disk, second |-> second,
                        first_ret |-> IF second THEN last.ret ELSE NoPath,
                        first_exc |-> IF second THEN last.exc ELSE NoExc]
    /\ UNCHANGED <<live, shadow, fresh, pending, visit, frames>>

InitCache ==
    /\ Store0
    /\ visit = [recursion_guard |-> << >>, root_ids |-> {}]
    /\ last = Idle

NextCache == SourceFileChanges \/ GetOrCreateCacheFile

SpecCache == InitCache /\ [][NextCache]_vars

\* the second of two successive calls with the same path and bytes
SecondCall == last.op = "get_or_create_cache_file" /\ last.second

\* C13: two successive calls of get_or_create_cache_file with the same path
\* and bytes both return, the same path, and the second one writes nothing.
C13_SecondCallSamePath ==
    SecondCall =>
        /\ last.first_exc = NoExc
        /\ last.exc = NoExc
        /\ last.ret = last.first_ret
        /\ last.ret # NoPath
        /\ disk = last.before

\* the calls that return are deterministic and write nothing
C13_ReturningCallsAgree ==
    SecondCall /\ last.first_exc = NoExc =>
        last.exc = NoExc /\ last.ret = last.first_ret /\ disk = last.before

\* two successive calls for a path that is not on disk have both raised
C13_BothCallsRaised ==
    /\ SecondCall
    /\ last.first_exc = "AttributeError"
    /\ last.exc = "AttributeError"

\* C14: every cached blob has a metadata file that records the path it was
\* created for.
C14_BlobHasMetadata ==
    \A c \in CachePaths :
        disk.blob[c] # NoFile =>
            /\ disk.meta[c] # NoPath
            /\ get_cache_file_hash(Path(disk.meta[c])) = c

\* a cached blob exists
C14_SomeBlobCached ==
    \E c \in CachePaths : disk.blob[c] # NoFile

====
